---- MODULE Spec2Model ----
(***************************************************************************)
(* Model of telegram_multi_lookup.py (src/m.py): the /num handler, the     *)
(* memoised aggregate_lookups (cachetools.cached over a TTLCache), the     *)
(* three provider wrappers and the best-effort merge.                      *)
(*                                                                         *)
(* Python values are tagged records so that values of different Python     *)
(* types can be compared: None, str, bool, int and dict.  A Python dict is *)
(* a TLA+ function whose domain is the set of its keys.  A phone number is *)
(* a sequence of one-character strings.                                    *)
(***************************************************************************)
EXTENDS Integers, Sequences, FiniteSets, TLC

\* ---------------------------------------------------------------- bounds
\* Number of executor threads that may run aggregate_lookups at once
\* (SpecConcurrent only).
NumCallers == 2
\* The clock (time.monotonic, read by the TTLCache) runs from 0 to MaxTime.
MaxTime == 2
\* TTLCache(maxsize=...): 10000 in the source, scaled down here.
MAXSIZE == 2
\* CACHE_TTL, read from the environment (default 3600); the model runs the
\* program configured with CACHE_TTL=2.
CACHE_TTL == 2

\* ------------------------------------------------------- Python values
None == [t |-> "None"]
Str(s) == [t |-> "str", s |-> s]
Bool(b) == [t |-> "bool", b |-> b]
Num(n) == [t |-> "int", n |-> n]
Dict(d) == [t |-> "dict", d |-> d]
EmptyFn == [k \in {} |-> None]

\* Python truthiness: bool(v).
Truthy(v) ==
    CASE v.t = "None" -> FALSE
      [] v.t = "str"  -> v.s # ""
      [] v.t = "bool" -> v.b
      [] v.t = "int"  -> v.n # 0
      [] v.t = "dict" -> DOMAIN v.d # {}

\* Python `a or b`.
Or(a, b) == IF Truthy(a) THEN a ELSE b

\* Python dict.get(k): None when the key is missing.
Get(d, k) == IF k \in DOMAIN d THEN d[k] ELSE None

\* d[k] = v on a Python dict.
Put(d, k, v) == [x \in DOMAIN d \cup {k} |-> IF x = k THEN v ELSE d[x]]

\* del d[k].
Del(d, k) == [x \in DOMAIN d \ {k} |-> d[x]]

Remove(seq, k) == SelectSeq(seq, LAMBDA x : x # k)

\* --------------------------------------------------- input validation
\* Characters of the model's phone numbers.  "ar3" stands for U+0663
\* (ARABIC-INDIC DIGIT THREE), for which str.isdigit() is True.
AsciiDigits == {"1", "2"}
Whitespace == {" "}

\* str.isdigit() on one character: every Unicode digit, not only 0-9.
isdigit(ch) == ch \in AsciiDigits \cup {"ar3"}

RECURSIVE lstrip(_)
lstrip(s) == IF s # <<>> /\ Head(s) \in Whitespace THEN lstrip(Tail(s)) ELSE s

RECURSIVE rstrip(_)
rstrip(s) ==
    IF s # <<>> /\ s[Len(s)] \in Whitespace
    THEN rstrip(SubSeq(s, 1, Len(s) - 1))
    ELSE s

\* str.strip()
strip(s) == rstrip(lstrip(s))

\* num_handler line 211: number.startswith("+") and
\* all(ch.isdigit() for ch in number[1:])
Sanitized(number) ==
    /\ number # <<>>
    /\ number[1] = "+"
    /\ \A i \in 2..Len(number) : isdigit(number[i])

\* ------------------------------------------------- provider wrappers
Adapters == {"numverify", "twilio", "whitepages"}

Failure(provider, error) ==
    [provider |-> Str(provider), available |-> Bool(FALSE), error |-> Str(error)]

\* An HTTP exchange as the wrappers see it:
\*   [kind |-> "exc", msg]            requests.get / raise_for_status / r.json() raised
\*   [kind |-> "http", status, json, text]   a response; json is the decoded body
\*   [kind |-> "escape", msg]         an exception that leaves the wrapper itself
\* call_numverify, lines 38-57.  raise_for_status() has already turned an
\* error status into kind "exc"; a body that is not a JSON object makes
\* data["provider"] = ... raise TypeError inside the try.
call_numverify(env, http) ==
    IF ~env.NUMVERIFY_KEY
    THEN Failure("numverify", "No NUMVERIFY_KEY configured")
    ELSE IF http.kind = "exc"
    THEN Failure("numverify", http.msg)
    ELSE IF http.json.t # "dict"
    THEN Failure("numverify", "TypeError")
    ELSE Put(Put(http.json.d, "provider", Str("numverify")), "available", Bool(TRUE))

\* Variant of the Twilio wrapper: one of the two credentials is enough to go
\* on to the request.
call_twilio_lookup_Either(env, http) ==
    IF ~(env.TWILIO_SID \/ env.TWILIO_AUTH)
    THEN Failure("twilio", "No Twilio credentials configured")
    ELSE IF http.kind = "exc"
    THEN Failure("twilio", http.msg)
    ELSE IF http.status = 200
    THEN IF http.json.t # "dict"
         THEN Failure("twilio", "TypeError")
         ELSE Put(Put(http.json.d, "provider", Str("twilio")), "available", Bool(TRUE))
    ELSE [provider |-> Str("twilio"), available |-> Bool(FALSE),
          status_code |-> Num(http.status), text |-> Str(http.text)]

\* call_twilio_lookup, lines 59-82.
call_twilio_lookup(env, http) ==
    IF ~(env.TWILIO_SID /\ env.TWILIO_AUTH)
    THEN Failure("twilio", "No Twilio credentials configured")
    ELSE IF http.kind = "exc"
    THEN Failure("twilio", http.msg)
    ELSE IF http.status = 200
    THEN IF http.json.t # "dict"
         THEN Failure("twilio", "TypeError")
         ELSE Put(Put(http.json.d, "provider", Str("twilio")), "available", Bool(TRUE))
    ELSE [provider |-> Str("twilio"), available |-> Bool(FALSE),
          status_code |-> Num(http.status), text |-> Str(http.text)]

\* call_whitepages_placeholder, lines 84-93.
call_whitepages_placeholder(env) ==
    IF ~env.WHITEPAGES_KEY
    THEN Failure("whitepages", "No WHITEPAGES_KEY configured")
    ELSE Failure("whitepages", "Placeholder - configure Whitepages integration")

\* The fan-out's try/except around one wrapper, lines 105-108, 111-114, 117-120:
\* the wrapper's result, or a failure record when the wrapper itself raised.
Guarded(provider, http, result) ==
    IF http.kind = "escape" THEN Failure(provider, http.msg) ELSE result

\* ------------------------------------------------------------- merge
Fields == {"international_format", "valid", "country_name", "country_code",
           "location", "carrier", "line_type", "caller_name"}

\* Variant of the Numverify block: its fields are taken whether the result is
\* available or not.
FromNumverify_Ungated(m, results) ==
    LET nv == results["numverify"] IN
    [m EXCEPT
        !.international_format = Or(Get(nv, "international_format"), m.international_format),
        !.valid = IF m.valid = None THEN Get(nv, "valid") ELSE m.valid,
        !.country_name = Or(Get(nv, "country_name"), m.country_name),
        !.country_code = Or(Get(nv, "country_code"), m.country_code),
        !.location = Or(Get(nv, "location"), m.location),
        !.carrier = Or(Get(nv, "carrier"), m.carrier),
        !.line_type = Or(Get(nv, "line_type"), m.line_type)]

\* Variant of the initial record: the international format starts as "+".
EmptyMerged_Prefilled(number, results) ==
    [queried_number |-> number, providers |-> results,
     international_format |-> Str("+"), valid |-> None, country_name |-> None,
     country_code |-> None, location |-> None, carrier |-> None,
     line_type |-> None, caller_name |-> None]

\* lines 123-135
EmptyMerged(number, results) ==
    [queried_number |-> number, providers |-> results,
     international_format |-> None, valid |-> None, country_name |-> None,
     country_code |-> None, location |-> None, carrier |-> None,
     line_type |-> None, caller_name |-> None]

\* lines 137-146.  results.get("numverify") or {}: every entry of results is
\* a non-empty dict by the time of the merge, so the `or {}` never applies.
FromNumverify(m, results) ==
    LET nv == results["numverify"] IN
    IF ~Truthy(Get(nv, "available")) THEN m
    ELSE [m EXCEPT
        !.international_format = Or(Get(nv, "international_format"), m.international_format),
        !.valid = IF m.valid = None THEN Get(nv, "valid") ELSE m.valid,
        !.country_name = Or(Get(nv, "country_name"), m.country_name),
        !.country_code = Or(Get(nv, "country_code"), m.country_code),
        !.location = Or(Get(nv, "location"), m.location),
        !.carrier = Or(Get(nv, "carrier"), m.carrier),
        !.line_type = Or(Get(nv, "line_type"), m.line_type)]

\* line 155-157: carrier = tw.get("carrier") or {}; carrier.get(...) raises
\* AttributeError when the truthy value is not a dict.
TwilioCarrierRaises(tw) ==
    /\ Truthy(Get(tw, "available"))
    /\ Truthy(Get(tw, "carrier"))
    /\ Get(tw, "carrier").t # "dict"

\* Variant of the caller-name step: the value is taken as it is, nested or not.
CallerName_Flat(cn, previous) == Or(cn, previous)

\* lines 163-166: the inner caller_name of a nested object, else the value.
CallerName(cn, previous) ==
    IF cn.t = "dict" THEN Or(Get(cn.d, "caller_name"), previous) ELSE Or(cn, previous)

\* lines 148-166 (when nothing raises)
FromTwilio(m, results) ==
    LET tw == results["twilio"] IN
    IF ~Truthy(Get(tw, "available")) THEN m
    ELSE
      LET m1 == IF Truthy(Get(tw, "phone_number"))
                THEN [m EXCEPT !.international_format =
                          Or(Get(tw, "phone_number"), m.international_format)]
                ELSE m
          carrier == Or(Get(tw, "carrier"), Dict(EmptyFn))
          m2 == IF Truthy(carrier)
                THEN [m1 EXCEPT
                        !.carrier = Or(Get(carrier.d, "name"), m1.carrier),
                        !.line_type = Or(Get(carrier.d, "type"), m1.line_type)]
                ELSE m1
          cn == Get(tw, "caller_name")
      IN  IF ~Truthy(cn) THEN m2
          ELSE [m2 EXCEPT !.caller_name = CallerName(cn, m2.caller_name)]

\* Variant of the merge: Twilio's country_code is taken as well.
Merge_TwilioCountry(number, results) ==
    IF TwilioCarrierRaises(results["twilio"])
    THEN [raised |-> TRUE]
    ELSE LET m == FromTwilio(FromNumverify(EmptyMerged(number, results), results), results)
         IN  [raised |-> FALSE,
              merged |-> [m EXCEPT !.country_code =
                             Or(Get(results["twilio"], "country_code"), m.country_code)],
              raw |-> results]

\* lines 122-170: the value aggregate_lookups returns for the collected
\* results, or [raised |-> TRUE] when the merge raises.
Merge(number, results) ==
    IF TwilioCarrierRaises(results["twilio"])
    THEN [raised |-> TRUE]
    ELSE [raised |-> FALSE,
          merged |-> FromTwilio(FromNumverify(EmptyMerged(number, results), results), results),
          raw |-> results]

\* --------------------------------------------- cachetools.TTLCache
\* lookup_cache = TTLCache(maxsize=..., ttl=CACHE_TTL), line 30.  The cache is
\* a record:
\*   data     key -> value                    (Cache.__data)
\*   links    keys, least recently used first (TTLCache.__links, an OrderedDict)
\*   expires  key -> expiry time              (link.expires)
\*   root     keys, oldest insertion first    (the linked list of TTLCache.__root)
EmptyCache == [data |-> EmptyFn, links |-> <<>>, expires |-> EmptyFn, root |-> <<>>]

\* Remove one item: Cache.__delitem__ plus dropping its link.
CacheDel(cache, key) ==
    [data |-> Del(cache.data, key), links |-> Remove(cache.links, key),
     expires |-> Del(cache.expires, key), root |-> Remove(cache.root, key)]

\* link.expires for a value stored at `time`.
ExpiresAt(time) == time + CACHE_TTL

\* Variants of the expiry test: one tick early, and only strictly after the
\* expiry time.
Expired_Early(cache, key, time) == ~(time + 1 < cache.expires[key])
Expired_Late(cache, key, time) == cache.expires[key] < time

\* An item is expired when not (time < link.expires).
Expired(cache, key, time) == ~(time < cache.expires[key])

\* TTLCache.expire(time): drop items from the head of the expiry list while
\* they are expired.
RECURSIVE expire(_, _)
expire(cache, time) ==
    IF cache.root # <<>> /\ Expired(cache, Head(cache.root), time)
    THEN expire(CacheDel(cache, Head(cache.root)), time)
    ELSE cache

\* Variant of the eviction choice: the most recently used key.
Victim_MRU(cache) == cache.links[Len(cache.links)]

\* The key TTLCache.popitem removes once the expired items are gone:
\* next(iter(self.__links)), the least recently used one.
Victim(cache) == Head(cache.links)

\* TTLCache.popitem()
popitem(cache, time) ==
    LET c1 == expire(cache, time) IN CacheDel(c1, Victim(c1))

\* Cache.__setitem__'s loop: while currsize + size > maxsize: self.popitem()
RECURSIVE MakeRoom(_, _)
MakeRoom(cache, time) ==
    IF Cardinality(DOMAIN cache.data) + 1 > MAXSIZE
    THEN MakeRoom(popitem(cache, time), time)
    ELSE cache

\* OrderedDict.move_to_end(key), appending the key when it is new.
MoveToEnd(seq, key) == Append(Remove(seq, key), key)

\* TTLCache.__getitem__: [found, value, cache].  __getlink moves the key to
\* the most-recently-used end before the expiry test; an expired or missing
\* key ends in __missing__, that is KeyError.
getitem(cache, key, time) ==
    IF key \notin DOMAIN cache.expires
    THEN [found |-> FALSE, value |-> None, cache |-> cache]
    ELSE LET touched == [cache EXCEPT !.links = MoveToEnd(cache.links, key)] IN
         IF Expired(cache, key, time)
         THEN [found |-> FALSE, value |-> None, cache |-> touched]
         ELSE [found |-> TRUE, value |-> cache.data[key], cache |-> touched]

\* TTLCache.__setitem__: expire, make room for a new key, store, and move the
\* key's link to the end of both orders with a fresh expiry time.
setitem(cache, key, value, time) ==
    LET c1 == expire(cache, time)
        c2 == IF key \in DOMAIN c1.data THEN c1 ELSE MakeRoom(c1, time)
    IN  [data |-> Put(c2.data, key, value),
         links |-> MoveToEnd(c2.links, key),
         expires |-> Put(c2.expires, key, ExpiresAt(time)),
         root |-> MoveToEnd(c2.root, key)]

\* The last part of TTLCache.__setitem__: the value is stored and the key's
\* link goes to the end of both orders with a fresh expiry time.
InsertItem(cache, key, value, time) ==
    [data |-> Put(cache.data, key, value),
     links |-> MoveToEnd(cache.links, key),
     expires |-> Put(cache.expires, key, ExpiresAt(time)),
     root |-> MoveToEnd(cache.root, key)]

\* The key cache[key] = value is going to delete next, <<>> when there is
\* none: the head of the expiry list while it is expired (expire), then, for
\* a new key in a full cache, the victim of popitem.
NextDoomed(cache, key, time) ==
    IF cache.root # <<>> /\ Expired(cache, Head(cache.root), time)
    THEN Head(cache.root)
    ELSE IF key \notin DOMAIN cache.data /\ Cardinality(DOMAIN cache.data) + 1 > MAXSIZE
    THEN Victim(cache)
    ELSE <<>>

\* The keys popitem() returns during cache[key] = value at `time`: the items
\* that had not expired and are gone afterwards.
Popped(cache, key, time) ==
    DOMAIN expire(cache, time).data \ DOMAIN setitem(cache, key, 0, time).data

\* ------------------------------------------------------------ inputs
\* Environments: which credentials are set (lines 23-26).
Envs == [NUMVERIFY_KEY : BOOLEAN, TWILIO_SID : BOOLEAN, TWILIO_AUTH : BOOLEAN,
         WHITEPAGES_KEY : BOOLEAN]
AllSet == [NUMVERIFY_KEY |-> TRUE, TWILIO_SID |-> TRUE, TWILIO_AUTH |-> TRUE,
           WHITEPAGES_KEY |-> TRUE]

\* Arguments of /num: no argument, or one whitespace-free word.
ValidNumbers == {<<"+", "1">>, <<"+", "2">>, <<"+", "1", "2">>}
BareNumbers == {<<"+">>}
BadNumbers == {<<"+", "a">>}
Arguments == {<<>>} \cup {<<n>> : n \in ValidNumbers \cup BareNumbers \cup BadNumbers}

Exc(msg) == [kind |-> "exc", msg |-> msg]
Escape(msg) == [kind |-> "escape", msg |-> msg]
Http(status, json) == [kind |-> "http", status |-> status, json |-> json, text |-> "body"]

\* Numverify bodies: a full answer, the answer for an invalid number (empty
\* strings), and the API's error document, which comes with HTTP 200.
NumverifyFull ==
    Dict([valid |-> Bool(TRUE), international_format |-> Str("+1"),
          country_name |-> Str("India"), country_code |-> Str("IN"),
          location |-> Str("Delhi"), carrier |-> Str("Acme"),
          line_type |-> Str("mobile")])
NumverifyInvalid ==
    Dict([valid |-> Bool(FALSE), international_format |-> Str(""),
          country_name |-> Str(""), country_code |-> Str(""),
          location |-> Str(""), carrier |-> Str(""), line_type |-> None])
NumverifyError ==
    Dict([success |-> Bool(FALSE),
          error |-> Dict([code |-> Num(101), info |-> Str("invalid access key")])])

\* Twilio bodies: nested carrier and caller_name, nulls, a carrier without
\* type with a flat caller_name, a flat carrier, nested objects of nulls.
TwilioFull ==
    Dict([phone_number |-> Str("+001"), country_code |-> Str("US"),
          carrier |-> Dict([name |-> Str("Other"), type |-> Str("landline")]),
          caller_name |-> Dict([caller_name |-> Str("ABC CORP"), error_code |-> None])])
TwilioBare == Dict([phone_number |-> Str("+001"), carrier |-> None, caller_name |-> None])
TwilioNameOnly ==
    Dict([carrier |-> Dict([name |-> Str("Other")]), caller_name |-> Str("Bob")])
TwilioFlat == Dict([carrier |-> Str("Other")])
TwilioNulls ==
    Dict([carrier |-> Dict([name |-> None, type |-> None]),
          caller_name |-> Dict([caller_name |-> None])])
\* A Twilio body with an empty carrier object and a caller_name nested twice.
TwilioDeep ==
    Dict([carrier |-> Dict(EmptyFn),
          caller_name |-> Dict([caller_name |-> Dict([caller_name |-> Str("ABC CORP")])])])
\* A Twilio body that states `valid` (as the Lookup v2 documents do).
TwilioValid == Dict([phone_number |-> Str("+001"), valid |-> Bool(TRUE)])

\* What the providers answer in the specifications of the whole program ...
NumverifyAnswers == {Exc("timeout"), Http(200, NumverifyFull)}
TwilioAnswers == {Http(200, TwilioFull), Http(200, TwilioFlat)}
\* ... and in the specification of one aggregation.
NumverifyAnswersAll ==
    NumverifyAnswers \cup
    {Http(200, NumverifyInvalid), Http(200, NumverifyError), Http(200, Str("text")),
     Escape("escaped")}
TwilioAnswersAll ==
    TwilioAnswers \cup
    {Exc("timeout"), Http(404, None), Http(200, TwilioBare), Http(200, TwilioNameOnly),
     Http(200, TwilioNulls), Http(200, TwilioDeep), Http(200, TwilioValid),
     Http(200, Str("text")),
     Escape("escaped")}

\* ------------------------------------------------------------- state
Callers == 1..NumCallers

VARIABLES
    env,           \* the credentials in the environment
    now,           \* the clock
    lookup_cache,  \* the TTLCache
    pc,            \* per caller: where its request is
    number,        \* per caller: num_handler's `number`
    results,       \* per caller: aggregate_lookups' `results`
    invoked,       \* per caller: the wrappers called for the current request
    calls,         \* per caller: how often each wrapper was called for it
    agg,           \* per caller: the value aggregate_lookups is returning
    reply,         \* per caller: the last reply sent to the chat
    popped,        \* the keys popitem() returned in the cache[k] = v of the
                   \* request answered last
    doomed         \* per caller: inside cache[k] = v, the key expire() or
                   \* popitem() has picked and not yet deleted

vars ==
    <<env, now, lookup_cache, pc, number, results, invoked, calls, agg, reply, popped,
      doomed>>

NoReply == [kind |-> "none"]

InitWith(environments) ==
    /\ env \in environments
    /\ now = 0
    /\ lookup_cache = EmptyCache
    /\ pc = [c \in Callers |-> "idle"]
    /\ number = [c \in Callers |-> <<>>]
    /\ results = [c \in Callers |-> EmptyFn]
    /\ invoked = [c \in Callers |-> {}]
    /\ calls = [c \in Callers |-> [a \in Adapters |-> 0]]
    /\ agg = [c \in Callers |-> None]
    /\ reply = [c \in Callers |-> NoReply]
    /\ popped = {}
    /\ doomed = [c \in Callers |-> <<>>]

\* ----------------------------------------------------------- actions
\* num_handler, lines 204-217: usage without argument, rejection of an
\* unsanitized number, otherwise aggregate_lookups is handed to the executor.
Receive(c, args) ==
    /\ pc[c] = "idle"
    /\ invoked' = [invoked EXCEPT ![c] = {}]
    /\ calls' = [calls EXCEPT ![c] = [a \in Adapters |-> 0]]
    /\ IF args = <<>>
       THEN /\ reply' = [reply EXCEPT ![c] = [kind |-> "usage"]]
            /\ UNCHANGED <<pc, number>>
       ELSE LET n == strip(args[1]) IN
            /\ number' = [number EXCEPT ![c] = n]
            /\ IF Sanitized(n)
               THEN /\ pc' = [pc EXCEPT ![c] = "lookup"]
                    /\ reply' = [reply EXCEPT ![c] = NoReply]
               ELSE /\ reply' = [reply EXCEPT ![c] = [kind |-> "invalid"]]
                    /\ UNCHANGED pc
    /\ popped' = {}
    /\ UNCHANGED <<env, now, lookup_cache, results, agg, doomed>>

\* lines 218-229 after aggregate_lookups returned v: the formatted reply.
Replied(c, v) ==
    /\ reply' = [reply EXCEPT ![c] = [kind |-> "result", agg |-> v]]
    /\ pc' = [pc EXCEPT ![c] = "idle"]
    /\ results' = [results EXCEPT ![c] = EmptyFn]
    /\ agg' = [agg EXCEPT ![c] = None]

\* cachetools.cached's wrapper, first half (line 97): return cache[k], or go
\* on to the function on KeyError.
Lookup(c) ==
    /\ pc[c] = "lookup"
    /\ LET r == getitem(lookup_cache, number[c], now) IN
       /\ lookup_cache' = r.cache
       /\ IF r.found
          THEN Replied(c, r.value)
          ELSE /\ pc' = [pc EXCEPT ![c] = "call_numverify"]
               /\ UNCHANGED <<results, agg, reply>>
    /\ UNCHANGED <<env, now, number, invoked, calls, popped, doomed>>

\* A wrapper is entered (lines 106, 112): without credentials it returns at
\* once, otherwise its HTTP request is in flight.
Call(c, provider, at, inflight, next, configured, result) ==
    /\ pc[c] = at
    /\ invoked' = [invoked EXCEPT ![c] = @ \cup {provider}]
    /\ calls' = [calls EXCEPT ![c][provider] = @ + 1]
    /\ IF configured
       THEN /\ pc' = [pc EXCEPT ![c] = inflight]
            /\ UNCHANGED results
       ELSE /\ pc' = [pc EXCEPT ![c] = next]
            /\ results' = [results EXCEPT ![c] = Put(@, provider, result)]
    /\ UNCHANGED <<env, now, lookup_cache, number, agg, reply, popped, doomed>>

\* Variant of the end of a request: a failed request sends the fan-out back to
\* call the wrapper again.
Return_Retry(c, provider, inflight, next, result) ==
    /\ pc[c] = inflight
    /\ pc' = [pc EXCEPT ![c] =
                 IF Truthy(result.available) THEN next
                 ELSE IF provider = "numverify" THEN "call_numverify" ELSE "call_twilio"]
    /\ results' = [results EXCEPT ![c] = Put(@, provider, result)]
    /\ UNCHANGED <<env, now, lookup_cache, number, invoked, calls, agg, reply, popped, doomed>>

\* The request of a wrapper ends; the fan-out stores its entry.
Return(c, provider, inflight, next, result) ==
    /\ pc[c] = inflight
    /\ pc' = [pc EXCEPT ![c] = next]
    /\ results' = [results EXCEPT ![c] = Put(@, provider, result)]
    /\ UNCHANGED <<env, now, lookup_cache, number, invoked, calls, agg, reply, popped, doomed>>

CallNumverify(c) ==
    Call(c, "numverify", "call_numverify", "in_numverify", "call_twilio",
         env.NUMVERIFY_KEY, call_numverify(env, Exc("")))

ReturnNumverify(c, http) ==
    Return(c, "numverify", "in_numverify", "call_twilio",
           Guarded("numverify", http, call_numverify(env, http)))

CallTwilio(c) ==
    Call(c, "twilio", "call_twilio", "in_twilio", "call_whitepages",
         env.TWILIO_SID /\ env.TWILIO_AUTH, call_twilio_lookup(env, Exc("")))

ReturnTwilio(c, http) ==
    Return(c, "twilio", "in_twilio", "call_whitepages",
           Guarded("twilio", http, call_twilio_lookup(env, http)))

\* lines 116-170: the Whitepages placeholder (no request) and the merge.  An
\* exception of the merge leaves aggregate_lookups.
Whitepages(c) ==
    /\ pc[c] = "call_whitepages"
    /\ invoked' = [invoked EXCEPT ![c] = @ \cup {"whitepages"}]
    /\ calls' = [calls EXCEPT ![c]["whitepages"] = @ + 1]
    /\ LET rs == Put(results[c], "whitepages", call_whitepages_placeholder(env))
           v == Merge(number[c], rs)
       IN  /\ results' = [results EXCEPT ![c] = rs]
           /\ IF v.raised
              THEN /\ pc' = [pc EXCEPT ![c] = "raised"]
                   /\ UNCHANGED agg
              ELSE /\ pc' = [pc EXCEPT ![c] = "store"]
                   /\ agg' = [agg EXCEPT ![c] = v]
    /\ UNCHANGED <<env, now, lookup_cache, number, reply, popped, doomed>>

\* Variant of the second half: a bundle in which Numverify failed is returned
\* without being stored.
Store_SkipFailures(c) ==
    /\ pc[c] = "store"
    /\ IF Truthy(agg[c].raw["numverify"].available)
       THEN /\ lookup_cache' = setitem(lookup_cache, number[c], agg[c], now)
            /\ popped' = Popped(lookup_cache, number[c], now)
       ELSE UNCHANGED <<lookup_cache, popped>>
    /\ Replied(c, agg[c])
    /\ UNCHANGED <<env, now, number, invoked, calls, doomed>>

\* cachetools.cached's wrapper, second half: cache[k] = v; return v.
Store(c) ==
    /\ pc[c] = "store"
    /\ lookup_cache' = setitem(lookup_cache, number[c], agg[c], now)
    /\ popped' = Popped(lookup_cache, number[c], now)
    /\ Replied(c, agg[c])
    /\ UNCHANGED <<env, now, number, invoked, calls, doomed>>

\* cache[k] = v as several threads run it: cachetools.cached is given no lock
\* (line 97), so the steps of TTLCache.__setitem__ of one thread interleave
\* with those of another.  First step: expire() reads the head of the expiry
\* list, or popitem() reads next(iter(links)).
StoreScan(c) ==
    /\ pc[c] = "store"
    /\ LET k == NextDoomed(lookup_cache, number[c], now) IN
       /\ doomed' = [doomed EXCEPT ![c] = k]
       /\ pc' = [pc EXCEPT ![c] = IF k = <<>> THEN "store_insert" ELSE "store_delete"]
    /\ UNCHANGED <<env, now, lookup_cache, number, results, invoked, calls, agg, reply, popped>>

\* Second step: the key read is deleted (Cache.__delitem__ in expire, Cache.pop
\* in popitem).  When another thread has deleted it meanwhile, this is
\* KeyError, which cachetools.cached lets through (it catches ValueError only).
StoreDelete(c) ==
    /\ pc[c] = "store_delete"
    /\ doomed' = [doomed EXCEPT ![c] = <<>>]
    /\ IF doomed[c] \in DOMAIN lookup_cache.data
       THEN /\ lookup_cache' = CacheDel(lookup_cache, doomed[c])
            /\ popped' = IF Expired(lookup_cache, doomed[c], now)
                         THEN popped ELSE popped \cup {doomed[c]}
            /\ pc' = [pc EXCEPT ![c] = "store"]
       ELSE /\ pc' = [pc EXCEPT ![c] = "raised"]
            /\ UNCHANGED <<lookup_cache, popped>>
    /\ UNCHANGED <<env, now, number, results, invoked, calls, agg, reply>>

\* Last step: the value and its link are stored; the wrapper returns v.
StoreInsert(c) ==
    /\ pc[c] = "store_insert"
    /\ lookup_cache' = InsertItem(lookup_cache, number[c], agg[c], now)
    /\ Replied(c, agg[c])
    /\ UNCHANGED <<env, now, number, invoked, calls, popped, doomed>>

\* num_handler lines 219-221: "Error during lookup".
LookupError(c) ==
    /\ pc[c] = "raised"
    /\ reply' = [reply EXCEPT ![c] = [kind |-> "error"]]
    /\ pc' = [pc EXCEPT ![c] = "idle"]
    /\ results' = [results EXCEPT ![c] = EmptyFn]
    /\ UNCHANGED <<env, now, lookup_cache, number, invoked, calls, agg, popped, doomed>>

\* Time passes.
Tick ==
    /\ now < MaxTime
    /\ now' = now + 1
    /\ UNCHANGED <<env, lookup_cache, pc, number, results, invoked, calls, agg, reply, popped,
                   doomed>>

\* One request of caller c with the given inputs, up to the value
\* aggregate_lookups computes, and its failure.
Compute(c, arguments, numverifyAnswers, twilioAnswers) ==
    \/ \E args \in arguments : Receive(c, args)
    \/ Lookup(c)
    \/ CallNumverify(c)
    \/ \E http \in numverifyAnswers : ReturnNumverify(c, http)
    \/ CallTwilio(c)
    \/ \E http \in twilioAnswers : ReturnTwilio(c, http)
    \/ Whitepages(c)
    \/ LookupError(c)

\* One request of caller c when no other thread is inside the cache: the
\* steps of cache[k] = v follow each other without interruption.
Step(c, arguments, numverifyAnswers, twilioAnswers) ==
    \/ Compute(c, arguments, numverifyAnswers, twilioAnswers)
    \/ Store(c)

\* One request of caller c among other threads.
StepThreaded(c, arguments, numverifyAnswers, twilioAnswers) ==
    \/ Compute(c, arguments, numverifyAnswers, twilioAnswers)
    \/ StoreScan(c)
    \/ StoreDelete(c)
    \/ StoreInsert(c)

\* One request at a time: the sequences of calls, with time passing.
Init == InitWith({AllSet})
Next ==
    \/ Step(1, Arguments, NumverifyAnswers, TwilioAnswers)
    \/ Tick
Spec == Init /\ [][Next]_vars

\* Several requests at a time: aggregate_lookups runs in executor threads
\* (line 217), and neither it nor cachetools.cached, which is given no lock,
\* serialises its callers.  U+0663 is a digit for str.isdigit().
ConcurrentArguments == {<<n>> : n \in {<<"+", "1">>, <<"+", "ar3">>}}
InitConcurrent == InitWith({AllSet})
NextConcurrent ==
    \/ \E c \in Callers :
          StepThreaded(c, ConcurrentArguments, NumverifyAnswers, TwilioAnswers)
    \/ Tick
SpecConcurrent == InitConcurrent /\ [][NextConcurrent]_vars

\* One aggregation at a time for one number, over every environment and every
\* answer of the providers.
MergeArguments == {<<n>> : n \in {<<"+", "1">>}}
InitMerge == InitWith(Envs)
NextMerge == Step(1, MergeArguments, NumverifyAnswersAll, TwilioAnswersAll)
SpecMerge == InitMerge /\ [][NextMerge]_vars

\* SpecMerge with progress: a request to a provider returns or times out
\* (timeout=10, lines 49 and 71) and the handler's code runs on, so a step
\* that stays possible is taken.
FairMerge == SpecMerge /\ WF_vars(NextMerge)

\* Several requests at a time, each thread asking for a number of its own,
\* with time passing; the providers answer well, so the merge never raises.
OwnNumber(c) == <<"+">> \o [i \in 1..c |-> "1"]
InitDistinct == InitWith({AllSet})
NextDistinct ==
    \/ \E c \in Callers :
          StepThreaded(c, {<<OwnNumber(c)>>}, NumverifyAnswers, {Http(200, TwilioFull)})
    \/ Tick
SpecDistinct == InitDistinct /\ [][NextDistinct]_vars

\* The merge (lines 122-170) as a function of `results`, over records the
\* wrappers of this file return and over records of any other shape: every
\* record of the first kind, and unavailable records that carry the fields of
\* a full answer, `available` being False, None, 0 or missing.
Unavailables == {Dict([available |-> Bool(FALSE)]), Dict([available |-> None]),
                 Dict([available |-> Num(0)]), Dict(EmptyFn)}
Onto(body, rest) ==
    [k \in DOMAIN body.d \cup DOMAIN rest.d |->
        IF k \in DOMAIN rest.d THEN rest.d[k] ELSE body.d[k]]
NumverifyRecords ==
    {Guarded("numverify", h, call_numverify(AllSet, h)) : h \in NumverifyAnswersAll}
        \cup {Onto(NumverifyFull, u) : u \in Unavailables}
TwilioRecords ==
    {Guarded("twilio", h, call_twilio_lookup(AllSet, h)) : h \in TwilioAnswersAll}
        \cup {Onto(TwilioFull, u) : u \in Unavailables}
        \cup {Onto(TwilioNameOnly, u) : u \in Unavailables}

\* aggregate_lookups('+1') has collected `results` from Numverify and Twilio
\* and goes on to the Whitepages placeholder and the merge.
InitAnyRecords ==
    /\ env \in {AllSet}
    /\ now = 0
    /\ lookup_cache = EmptyCache
    /\ pc = [c \in Callers |-> IF c = 1 THEN "call_whitepages" ELSE "idle"]
    /\ number = [c \in Callers |-> IF c = 1 THEN <<"+", "1">> ELSE <<>>]
    /\ \E nv \in NumverifyRecords, tw \in TwilioRecords :
          results = [c \in Callers |->
                        IF c = 1 THEN [numverify |-> nv, twilio |-> tw] ELSE EmptyFn]
    /\ invoked = [c \in Callers |-> IF c = 1 THEN {"numverify", "twilio"} ELSE {}]
    /\ calls = [c \in Callers |->
                  [a \in Adapters |-> IF c = 1 /\ a # "whitepages" THEN 1 ELSE 0]]
    /\ agg = [c \in Callers |-> None]
    /\ reply = [c \in Callers |-> NoReply]
    /\ popped = {}
    /\ doomed = [c \in Callers |-> <<>>]
NextAnyRecords == Whitepages(1) \/ Store(1) \/ LookupError(1)
SpecAnyRecords == InitAnyRecords /\ [][NextAnyRecords]_vars

\* ================================================================ claims
\* The cache holds an entry for k whose TTL window is still open.
InWindow(k) ==
    k \in DOMAIN lookup_cache.data /\ now < lookup_cache.expires[k]

\* The cache holds an entry for k whose TTL has elapsed.
Stale(k) ==
    k \in DOMAIN lookup_cache.expires /\ now >= lookup_cache.expires[k]

\* ---- C3
\* A lookup that finds the key inside its TTL window ends the request at
\* once with the cached bundle and without any wrapper called.
C3_HitServed ==
    \A c \in Callers :
        (pc[c] = "lookup" /\ pc'[c] # "lookup" /\ InWindow(number[c])) =>
            /\ pc'[c] = "idle"
            /\ invoked'[c] = {}
            /\ reply'[c] = [kind |-> "result", agg |-> lookup_cache.data[number[c]]]

\* The bundle a miss returns is the bundle it caches, with a window of
\* CACHE_TTL from the time of the store.
C3_Stored ==
    \A c \in Callers :
        (pc[c] = "store" /\ pc'[c] # "store") =>
            /\ reply'[c].kind = "result"
            /\ number[c] \in DOMAIN lookup_cache'.data
            /\ lookup_cache'.data[number[c]] = reply'[c].agg
            /\ lookup_cache'.expires[number[c]] = now + CACHE_TTL

\* A cached bundle changes only when a miss for its key stores a new one.
C3_Immutable ==
    \A k \in DOMAIN lookup_cache.data \cap DOMAIN lookup_cache'.data :
        \/ lookup_cache'.data[k] = lookup_cache.data[k]
        \/ \E c \in Callers : pc[c] = "store" /\ pc'[c] = "idle" /\ number[c] = k

\* C3: a second aggregate(K) inside the TTL window of the entry the first
\* call created returns the bundle of the first call and calls no provider
\* wrapper.
C3_CacheIdempotence == [][C3_HitServed /\ C3_Stored /\ C3_Immutable]_vars

\* A request answered from the cache one tick after the entry was stored.
C3_Witness ==
    \E c \in Callers :
        /\ pc[c] = "idle"
        /\ reply[c].kind = "result"
        /\ invoked[c] = {}
        /\ InWindow(number[c])
        /\ lookup_cache.expires[number[c]] - CACHE_TTL < now
        /\ reply[c].agg = lookup_cache.data[number[c]]

\* ---- C4
\* A lookup that finds the key after its TTL is a miss: nothing is replied,
\* the fan-out starts.
C4_Miss ==
    \A c \in Callers :
        (pc[c] = "lookup" /\ pc'[c] # "lookup" /\ Stale(number[c])) =>
            /\ pc'[c] = "call_numverify"
            /\ reply'[c].kind # "result"

\* Every wrapper has been called by the time the fan-out is over.
C4_FanOut ==
    \A c \in Callers :
        pc'[c] \in {"store", "raised"} => invoked'[c] = Adapters

\* The new bundle takes the place of the stale entry.
C4_Replaced ==
    \A c \in Callers :
        (pc[c] = "store" /\ pc'[c] # "store" /\ Stale(number[c])) =>
            /\ lookup_cache'.data[number[c]] = agg[c]
            /\ lookup_cache'.expires[number[c]] = now + CACHE_TTL
            /\ Len(SelectSeq(lookup_cache'.root, LAMBDA k : k = number[c])) = 1

\* C4: aggregate(K) after the TTL of K's entry has elapsed never returns the
\* stale bundle; a fresh fan-out calls every wrapper and its bundle replaces
\* the stale entry.
C4_CacheExpiry == [][C4_Miss /\ C4_FanOut /\ C4_Replaced]_vars

\* A fresh fan-out has run for a key whose stale entry is still in the cache.
C4_Witness ==
    \E c \in Callers :
        pc[c] = "store" /\ Stale(number[c]) /\ invoked[c] = Adapters

\* ---- C5
\* '+' followed by one or more ASCII digits.
WellFormed(n) ==
    /\ Len(n) >= 2
    /\ n[1] = "+"
    /\ \A i \in 2..Len(n) : n[i] \in AsciiDigits

\* C5: a query key that is not '+' followed by one or more ASCII digits is
\* rejected: its request goes no further than the handler, no wrapper is
\* called and the key never enters the cache.
C5_InvalidRejected ==
    \A c \in Callers :
        ~WellFormed(number[c]) =>
            /\ pc[c] = "idle"
            /\ invoked[c] = {}
            /\ reply[c].kind \in {"none", "usage", "invalid"}
            /\ number[c] \notin DOMAIN lookup_cache.data

\* ---- C8
C8_SizeBound == Cardinality(DOMAIN lookup_cache.data) <= MAXSIZE

\* The unexpired keys, least recently used first / oldest insertion first.
LiveLinks == SelectSeq(lookup_cache.links, LAMBDA k : now < lookup_cache.expires[k])
LiveRoot == SelectSeq(lookup_cache.root, LAMBDA k : now < lookup_cache.expires[k])

\* An unexpired entry that leaves the cache is the least recently used one.
C8_EvictsLRU ==
    \A k \in DOMAIN lookup_cache.data :
        (k \notin DOMAIN lookup_cache'.data /\ now < lookup_cache.expires[k]) =>
            k = Head(LiveLinks)

\* An unexpired entry that leaves the cache is the least recently inserted one.
C8_EvictsOldest ==
    \A k \in DOMAIN lookup_cache.data :
        (k \notin DOMAIN lookup_cache'.data /\ now < lookup_cache.expires[k]) =>
            k = Head(LiveRoot)

\* C8 as stated: the cache never holds more than MAXSIZE entries, and the
\* unexpired entry evicted to make room is the least recently inserted one.
C8_Original == []C8_SizeBound /\ [][C8_EvictsOldest]_vars

\* C8 as amended: the cache never holds more than MAXSIZE entries, and the
\* unexpired entry evicted to make room is the least recently used one (a
\* read from the cache counts as a use).
C8_CapacityEviction == []C8_SizeBound /\ [][C8_EvictsLRU]_vars

\* A store has just evicted an unexpired entry from a full cache.
C8_Witness ==
    /\ popped # {}
    /\ popped \cap DOMAIN lookup_cache.data = {}
    /\ Cardinality(DOMAIN lookup_cache.data) = MAXSIZE

\* ---- C1
\* The caller is between the cache miss and the end of its fan-out.
InFanOut(c) ==
    pc[c] \in {"call_numverify", "in_numverify", "call_twilio", "in_twilio",
               "call_whitepages"}

\* C1: for one key at most one fan-out is in flight at a time: no second
\* fan-out for a key starts while the first is running.
C1_SingleFlight ==
    \A c1, c2 \in Callers :
        (c1 # c2 /\ number[c1] = number[c2]) => ~(InFanOut(c1) /\ InFanOut(c2))

\* ---- C2
\* C2: in the bundle of a fan-out, every canonical field for which the
\* available Numverify result has a non-empty value carries that value,
\* whatever the Twilio result offers.
C2_NoOverwrite ==
    \A c \in Callers :
        (pc[c] = "store" /\ Truthy(results[c]["numverify"].available)) =>
            \A f \in Fields :
                Truthy(Get(results[c]["numverify"], f)) =>
                    agg[c].merged[f] = Get(results[c]["numverify"], f)

\* ---- C6
\* C6: the aggregation never raises, and once the fan-out is over every
\* wrapper has been called and the bundle's raw mapping has one entry per
\* wrapper, each tagged with the wrapper's name.
C6_FanOutTotal ==
    \A c \in Callers :
        /\ pc[c] # "raised"
        /\ reply[c].kind # "error"
        /\ pc[c] = "store" =>
            /\ invoked[c] = Adapters
            /\ DOMAIN agg[c].raw = Adapters
            /\ \A a \in Adapters : agg[c].raw[a].provider = Str(a)

\* ---- C7
\* C7: every provider result is either unavailable with an error and nothing
\* else, or available without an error.
C7_ResultInvariant ==
    \A c \in Callers : \A a \in DOMAIN results[c] :
        LET r == results[c][a] IN
        /\ ~Truthy(r.available) =>
              /\ DOMAIN r = {"provider", "available", "error"}
              /\ Truthy(r.error)
        /\ Truthy(r.available) => Get(r, "error") = None

\* ---- C9
\* C9: while the request of one wrapper is in flight, the other wrapper that
\* makes a request has been called already or can be called now.
C9_Concurrent ==
    \A c \in Callers :
        /\ pc[c] = "in_numverify" =>
              ("twilio" \in invoked[c] \/ ENABLED CallTwilio(c))
        /\ pc[c] = "in_twilio" =>
              ("numverify" \in invoked[c] \/ ENABLED CallNumverify(c))

\* ---- C10
\* Every wrapper has answered and every answer is unavailable.
AllUnavailable(c) ==
    /\ DOMAIN results[c] = Adapters
    /\ \A a \in Adapters : ~Truthy(results[c][a].available)

\* C10: when every wrapper's result is unavailable the aggregation raises
\* nothing and returns a bundle whose canonical fields are all None.
C10_AllUnavailable ==
    \A c \in Callers :
        AllUnavailable(c) =>
            /\ pc[c] = "store"
            /\ agg[c].raw = results[c]
            /\ \A f \in Fields : agg[c].merged[f] = None

\* All credentials are set and every provider failed.
C10_Witness ==
    \E c \in Callers : env = AllSet /\ AllUnavailable(c) /\ pc[c] = "store"

\* ---- C11
\* The providers in priority order: the order of the fan-out and of the
\* merge's blocks.
Priority == <<"numverify", "twilio", "whitepages">>

\* The result record states `valid`: it is available and carries a value.
StatesValid(r) == Truthy(r.available) /\ Get(r, "valid") # None

\* The positions in Priority of the providers that state `valid`.
Stating(rs) == {i \in 1..Len(Priority) : StatesValid(rs[Priority[i]])}

\* The value of the highest-priority provider that states `valid`, None when
\* no provider does.
FirstValid(rs) ==
    IF Stating(rs) = {} THEN None
    ELSE LET i == CHOOSE x \in Stating(rs) : \A y \in Stating(rs) : x <= y
         IN  rs[Priority[i]].valid

\* C11: the bundle's valid is the value stated by the highest-priority
\* available provider that states it (an explicit false included), and is
\* None only when no available provider states it.
C11_ValidFirstWins ==
    \A c \in Callers :
        pc[c] = "store" => agg[c].merged.valid = FirstValid(results[c])

\* The part of C11 the merge does keep: a valid stated by Numverify, false
\* included, is the bundle's valid whatever Twilio states.
C11_NumverifyWins ==
    \A c \in Callers :
        (pc[c] = "store" /\ StatesValid(results[c]["numverify"])) =>
            agg[c].merged.valid = results[c]["numverify"].valid

\* ---- C12
\* C12: of concurrent calls for pairwise different keys, each caller receives
\* a bundle, the bundle's queried_number is the key the caller asked for, and
\* the cache maps every key it holds to a bundle computed for that key.
C12_DistinctKeysSafe ==
    /\ \A c \in Callers :
          /\ pc[c] # "raised"
          /\ reply[c].kind # "error"
          /\ reply[c].kind = "result" => reply[c].agg.merged.queried_number = number[c]
    /\ \A k \in DOMAIN lookup_cache.data : lookup_cache.data[k].merged.queried_number = k

\* ---- C13
\* A bundle with an entry for every provider and every canonical field.
CompleteBundle(v) ==
    /\ DOMAIN v.raw = Adapters
    /\ DOMAIN v.merged = Fields \cup {"queried_number", "providers"}
    /\ DOMAIN v.merged.providers = Adapters

\* What a caller is told is a complete bundle or the rejection of its input
\* (the usage text, the format message), nothing else.
C13_EndsWell ==
    \A c \in Callers :
        /\ reply[c].kind \in {"none", "usage", "invalid", "result"}
        /\ reply[c].kind = "result" => CompleteBundle(reply[c].agg)

\* A request that has started is answered.
C13_Terminates == \A c \in Callers : (pc[c] # "idle") ~> (pc[c] = "idle")

\* C13: every request completes, and it ends with a complete bundle or with
\* a single explicit input-validation error.
C13_AlwaysCompletes == []C13_EndsWell /\ C13_Terminates

\* ---- C14
\* The credentials of the provider are in the environment.
Configured(a) ==
    CASE a = "numverify"  -> env.NUMVERIFY_KEY
      [] a = "twilio"     -> env.TWILIO_SID /\ env.TWILIO_AUTH
      [] a = "whitepages" -> env.WHITEPAGES_KEY

\* The messages that say a provider is not configured.
NotConfiguredError(a) ==
    CASE a = "numverify"  -> "No NUMVERIFY_KEY configured"
      [] a = "twilio"     -> "No Twilio credentials configured"
      [] a = "whitepages" -> "No WHITEPAGES_KEY configured"

\* The state in which the provider's HTTP request is in flight; the
\* Whitepages wrapper has none.
InFlight(a) ==
    CASE a = "numverify"  -> "in_numverify"
      [] a = "twilio"     -> "in_twilio"
      [] a = "whitepages" -> "in_whitepages"

\* C14: a wrapper whose credentials are not configured makes no request and
\* returns an unavailable result whose error says it is not configured; so
\* for Numverify, Twilio and Whitepages alike.
C14_Unconfigured ==
    \A c \in Callers : \A a \in Adapters :
        ~Configured(a) =>
            /\ pc[c] # InFlight(a)
            /\ a \in DOMAIN results[c] =>
                  results[c][a] = Failure(a, NotConfiguredError(a))

\* A fan-out is over with no provider configured, Twilio having one of its
\* two credentials.
C14_Witness ==
    \E c \in Callers :
        /\ pc[c] = "store"
        /\ invoked[c] = Adapters
        /\ env.TWILIO_SID
        /\ \A a \in Adapters : ~Configured(a)
        /\ \A a \in Adapters : ~Truthy(results[c][a].available)

\* ---- C15
\* The values a provider's record offers for a canonical field: the field
\* itself, Twilio's phone_number for the international format, and the
\* members of the nested carrier and caller_name objects.
Inner(v, k) == IF v.t = "dict" THEN {Get(v.d, k)} ELSE {v}
Offered(r, f) ==
    {Get(r, f)}
        \cup (IF f = "international_format" THEN {Get(r, "phone_number")} ELSE {})
        \cup (IF f = "carrier" THEN Inner(Get(r, "carrier"), "name") ELSE {})
        \cup (IF f = "line_type" THEN Inner(Get(r, "carrier"), "type") ELSE {})
        \cup (IF f = "caller_name" THEN Inner(Get(r, "caller_name"), "caller_name") ELSE {})

\* The record is one of available=true.
Available(r) == Get(r, "available") = Bool(TRUE)

\* C15: every consolidated field of a bundle is None or a value offered by a
\* provider whose record is available; a record that is not available
\* contributes nothing, whatever else it carries.
C15_UnavailableSilent ==
    \A c \in Callers :
        pc[c] = "store" =>
            \A f \in Fields :
                \/ agg[c].merged[f] = None
                \/ \E a \in Adapters :
                      /\ Available(results[c][a])
                      /\ agg[c].merged[f] \in Offered(results[c][a], f)

\* A bundle made of a Numverify record that is not available and carries a
\* carrier, and of an available Twilio record that names another.
C15_Witness ==
    \E c \in Callers :
        /\ pc[c] = "store"
        /\ ~Truthy(Get(results[c]["numverify"], "available"))
        /\ Truthy(Get(results[c]["numverify"], "carrier"))
        /\ Available(results[c]["twilio"])
        /\ agg[c].merged.carrier # None
        /\ agg[c].merged.carrier # results[c]["numverify"].carrier

\* ---- C16
\* C16: in one fan-out every wrapper is called exactly once: never twice,
\* and once each by the time the fan-out is over, failed and timed-out
\* requests included.
C16_CalledOnce ==
    \A c \in Callers : \A a \in Adapters :
        /\ calls[c][a] <= 1
        /\ calls[c][a] = (IF a \in invoked[c] THEN 1 ELSE 0)
        /\ pc[c] \in {"store", "raised"} => calls[c][a] = 1

\* A fan-out is over in which the requests to Numverify and to Twilio both
\* failed.
C16_Witness ==
    \E c \in Callers :
        /\ pc[c] = "store"
        /\ env = AllSet
        /\ results[c]["numverify"] = Failure("numverify", "timeout")
        /\ results[c]["twilio"] = Failure("twilio", "timeout")
        /\ \A a \in Adapters : calls[c][a] = 1

\* ---- C17
\* The consolidated record before the Twilio step.
BeforeTwilio(c) == FromNumverify(EmptyMerged(number[c], results[c]), results[c])

\* The member k of a nested object when it is there and not empty, else the
\* previous value; the previous value too when there is no nested object.
Unwrapped(v, k, previous) ==
    IF v.t = "dict" /\ Truthy(Get(v.d, k)) THEN Get(v.d, k) ELSE previous

\* C17: in a bundle with an available Twilio record, carrier is the name and
\* line_type the type of Twilio's carrier object, caller_name is the inner
\* caller_name of Twilio's caller_name object, taken one level down and no
\* further, or Twilio's caller_name itself when that is not an object; where
\* the nested value is empty or missing the field is what it was before the
\* Twilio step.
C17_TwilioUnwrap ==
    \A c \in Callers :
        (pc[c] = "store" /\ Available(results[c]["twilio"])) =>
            LET tw == results[c]["twilio"]
                m == agg[c].merged
                cn == Get(tw, "caller_name")
            IN  /\ m.carrier = Unwrapped(Get(tw, "carrier"), "name", BeforeTwilio(c).carrier)
                /\ m.line_type = Unwrapped(Get(tw, "carrier"), "type", BeforeTwilio(c).line_type)
                /\ m.caller_name =
                      IF cn.t = "dict"
                      THEN Unwrapped(cn, "caller_name", BeforeTwilio(c).caller_name)
                      ELSE IF Truthy(cn) THEN cn ELSE BeforeTwilio(c).caller_name

\* A bundle whose Twilio record nests its caller_name twice: the consolidated
\* caller_name is the object one level down.
C17_Witness ==
    \E c \in Callers :
        /\ pc[c] = "store"
        /\ Available(results[c]["twilio"])
        /\ Get(results[c]["twilio"], "caller_name").t = "dict"
        /\ agg[c].merged.caller_name.t = "dict"
        /\ agg[c].merged.caller_name = results[c]["twilio"].caller_name.d.caller_name
        /\ agg[c].merged.carrier = BeforeTwilio(c).carrier
        /\ agg[c].merged.carrier # None

\* ---- C18
\* The bundle reports a provider that failed, Whitepages (which never
\* answers) aside.
FailureBundle(v) ==
    \E a \in {"numverify", "twilio"} : ~Truthy(v.raw[a].available)

\* The bundle of a fan-out is stored under its key whatever it reports.
C18_Stored ==
    \A c \in Callers :
        (pc[c] = "store" /\ pc'[c] # "store") =>
            /\ number[c] \in DOMAIN lookup_cache'.data
            /\ lookup_cache'.data[number[c]] = agg[c]
            /\ now < lookup_cache'.expires[number[c]]

\* A lookup inside the window of a failure bundle returns that bundle and
\* calls no wrapper.
C18_HitServed ==
    \A c \in Callers :
        (/\ pc[c] = "lookup" /\ pc'[c] # "lookup"
         /\ InWindow(number[c])
         /\ FailureBundle(lookup_cache.data[number[c]])) =>
            /\ pc'[c] = "idle"
            /\ calls'[c] = [a \in Adapters |-> 0]
            /\ reply'[c] = [kind |-> "result", agg |-> lookup_cache.data[number[c]]]
            /\ lookup_cache'.data = lookup_cache.data

\* While aggregate_lookups is raising, and when it has raised, the cache has
\* no live entry for the key and the cache is left as it was.
C18_RaiseUncached ==
    \A c \in Callers :
        (pc[c] = "raised" \/ pc'[c] = "raised") =>
            /\ ~InWindow(number[c])
            /\ lookup_cache' = lookup_cache

\* C18: a bundle is cached whatever the providers' outcomes: the bundle of a
\* fan-out in which providers failed is stored, every lookup of its key
\* inside the TTL window returns it without a provider call, and only a
\* call of aggregate_lookups that raises leaves no entry for its key.
C18_FailureCached == [][C18_Stored /\ C18_HitServed /\ C18_RaiseUncached]_vars

\* A request has been answered from the cache with a bundle in which
\* Numverify had timed out, one tick or more after the bundle was stored.
C18_Witness ==
    \E c \in Callers :
        /\ pc[c] = "idle"
        /\ reply[c].kind = "result"
        /\ calls[c] = [a \in Adapters |-> 0]
        /\ InWindow(number[c])
        /\ lookup_cache.expires[number[c]] - CACHE_TTL < now
        /\ reply[c].agg = lookup_cache.data[number[c]]
        /\ reply[c].agg.raw["numverify"] = Failure("numverify", "timeout")

\* ---- C19
\* A Whitepages record that is available and offers every canonical field.
WhitepagesFull ==
    [provider |-> Str("whitepages"), available |-> Bool(TRUE),
     international_format |-> Str("+9"), valid |-> Bool(FALSE),
     country_name |-> Str("Nowhere"), country_code |-> Str("NW"),
     location |-> Str("Nowhere"), carrier |-> Str("WP"), line_type |-> Str("voip"),
     caller_name |-> Str("WP NAME")]

\* C19: in every bundle valid, country_name, country_code and location are
\* None or the Numverify record's value; caller_name is None or comes from the
\* Twilio record; the consolidated fields are what they would be with any
\* other Whitepages record; queried_number is the key of the call; and the
\* merged record's providers is the bundle's raw mapping.
C19_Provenance ==
    \A c \in Callers :
        pc[c] = "store" =>
            LET m == agg[c].merged IN
            /\ \A f \in {"valid", "country_name", "country_code", "location"} :
                  m[f] = None \/ m[f] = Get(results[c]["numverify"], f)
            /\ \/ m.caller_name = None
               \/ m.caller_name \in Offered(results[c]["twilio"], "caller_name")
            /\ \A f \in Fields :
                  m[f] = Merge(number[c],
                               Put(results[c], "whitepages", WhitepagesFull)).merged[f]
            /\ m.queried_number = number[c]
            /\ m.providers = agg[c].raw
            /\ agg[c].raw = results[c]

\* A bundle of full answers from Numverify and Twilio, which disagree on the
\* country code, with Whitepages configured.
C19_Witness ==
    \E c \in Callers :
        /\ pc[c] = "store"
        /\ env.WHITEPAGES_KEY
        /\ Available(results[c]["numverify"])
        /\ Available(results[c]["twilio"])
        /\ Truthy(Get(results[c]["twilio"], "country_code"))
        /\ agg[c].merged.country_code # None
        /\ agg[c].merged.country_code = Get(results[c]["numverify"], "country_code")
        /\ agg[c].merged.country_code # Get(results[c]["twilio"], "country_code")
        /\ agg[c].merged.caller_name = Str("ABC CORP")

====
